---- MODULE Spec2Model ----
(***************************************************************************)
(* Model of the candidate-evaluation backend: the in-memory job registry   *)
(* of EvaluationService, the background task _process_evaluation, the text *)
(* extraction adapter, the retry wrapper, and the entry points of the      *)
(* context retrieval adapter and of the LLM engine.                        *)
(*                                                                         *)
(* Conventions.                                                            *)
(*  - Optional[T]: None is <<>>, a present value v is <<v>>.               *)
(*  - A call's outcome is Return(v) or Raise(class, message).              *)
(*  - Floats are integers in hundredths (0.82 is 82, 4.2 is 420).          *)
(*  - Delays are integers in milliseconds (0.5 s is 500).                  *)
(*  - Extracted text is "text" (non-blank) or "" (the empty string).       *)
(*  - The event loop is single threaded: a task runs without interruption  *)
(*    between two awaits that suspend. No statement of _process_evaluation *)
(*    that the code can reach suspends, so while a task is between its     *)
(*    first and last step no request handler and no other task runs; only  *)
(*    the wall clock moves.                                                *)
(***************************************************************************)
EXTENDS Integers, Sequences, FiniteSets, TLC

\* Bounds of the model.
MaxJobs == 2
MaxClock == 1
MaxAttempts == 3
MaxResponseLen == 3

VARIABLES
    jobs,      \* EvaluationService.jobs: job id -> EvaluationResult
    tasks,     \* the background tasks made by asyncio.create_task: job id -> frame
    issued,    \* how many ids uuid.uuid4() has produced
    clock,     \* datetime.now()
    response,  \* the last response of a handler that changes the registry
    llm,       \* the last direct call of an LLM engine operation and its outcome
    call       \* the last direct call of another adapter operation and its outcome

vars == <<jobs, tasks, issued, clock, response, llm, call>>

JobIds == 1..MaxJobs

-----------------------------------------------------------------------------
\* Python values

None == <<>>
Some(v) == <<v>>
IsSet(o) == o # <<>>
Get(o) == o[1]

Return(v) == [ok |-> TRUE, val |-> v]
Raise(class, message) == [ok |-> FALSE, exc |-> class, msg |-> message]

\* The classes an exception of class k is an instance of.
Bases(k) ==
    CASE k \in {"ConnectionError", "TimeoutError"} -> {k, "OSError", "IOError", "Exception"}
      [] k \in {"OSError", "IOError"} -> {"OSError", "IOError", "Exception"}
      [] k \in {"FileProcessingError", "LLMServiceError", "VectorDatabaseError"} ->
            {k, "EvaluationError", "Exception"}
      [] OTHER -> {k, "Exception"}

IsInstance(k, classes) == Bases(k) \cap classes # {}

\* Attribute lookup on an instance of a class that defines the names in attrs.
GetAttr(attrs, class, name) ==
    IF name \in attrs
    THEN Return(name)
    ELSE Raise("AttributeError",
               "'" \o class \o "' object has no attribute '" \o name \o "'")

-----------------------------------------------------------------------------
\* app/models/schemas.py

QUEUED == "queued"
PROCESSING == "processing"
COMPLETED == "completed"
FAILED == "failed"
JobStatus == {QUEUED, PROCESSING, COMPLETED, FAILED}

OPENAI == "openai"
GEMINI == "gemini"
MOCK == "mock"
LLMProvider == {OPENAI, GEMINI, MOCK}

\* EvaluationResult(id=..., status=..., created_at=...) with the defaults of the schema.
EvaluationResult(id, status, created_at) ==
    [id |-> id, status |-> status, created_at |-> created_at,
     completed_at |-> None, result |-> None, error_message |-> None]

CompleteEvaluationResult(cv_match_rate, cv_feedback, project_score, project_feedback, overall_summary) ==
    [cv_match_rate |-> cv_match_rate, cv_feedback |-> cv_feedback,
     project_score |-> project_score, project_feedback |-> project_feedback,
     overall_summary |-> overall_summary]

EvaluationRequest(cv_file_id, project_report_file_id, job_description, study_case_brief, llm_provider) ==
    [cv_file_id |-> cv_file_id, project_report_file_id |-> project_report_file_id,
     job_description |-> job_description, study_case_brief |-> study_case_brief,
     llm_provider |-> llm_provider]

-----------------------------------------------------------------------------
\* app/core/retry.py

RECURSIVE Power(_, _)
Power(b, e) == IF e = 0 THEN 1 ELSE b * Power(b, e - 1)

Min(a, b) == IF a < b THEN a ELSE b

Max(a, b) == IF a > b THEN a ELSE b

\* The draws random.uniform(-jitter_range, jitter_range) can make, as a percentage
\* of jitter_range: the two ends and the middle.
Uniform == {-100, 0, 100}

\* A variant that raises the factor to the attempt number instead of attempt - 1.
calculate_delay_late(attempt, config, uniform) ==
    LET delay == Min(config.base_delay * Power(config.exponential_base, attempt),
                     config.max_delay)
        jitter_range == delay \div 10
    IN  Max(0, IF config.jitter THEN delay + (jitter_range * uniform) \div 100 ELSE delay)

\* Lines 27-37; uniform is the draw of line 35, used only when config.jitter is on.
calculate_delay(attempt, config, uniform) ==
    LET delay == Min(config.base_delay * Power(config.exponential_base, attempt - 1),
                     config.max_delay)
        jitter_range == delay \div 10
    IN  Max(0, IF config.jitter THEN delay + (jitter_range * uniform) \div 100 ELSE delay)

\* The wrapper of retry_sync and of retry_async: func[k] is the outcome of the k-th
\* invocation of the wrapped function. The result holds the outcome of the wrapper,
\* the number of invocations made and the delays slept.
\* A variant that also sleeps after the last attempt, before it raises.
RECURSIVE retry_loop_sleeping_last(_, _, _, _, _)
retry_loop_sleeping_last(config, func, rand, attempt, delays) ==
    LET r == func[attempt] IN
    IF r.ok
    THEN [out |-> r, calls |-> attempt, delays |-> delays]
    ELSE IF IsInstance(r.exc, config.retryable_exceptions)
         THEN LET slept == Append(delays, calculate_delay(attempt, config, rand[attempt]))
              IN  IF attempt = config.max_attempts
                  THEN [out |-> r, calls |-> attempt, delays |-> slept]
                  ELSE retry_loop_sleeping_last(config, func, rand, attempt + 1, slept)
         ELSE [out |-> r, calls |-> attempt, delays |-> delays]

\* A variant that retries after every exception, retryable or not.
RECURSIVE retry_loop_retrying_all(_, _, _, _, _)
retry_loop_retrying_all(config, func, rand, attempt, delays) ==
    LET r == func[attempt] IN
    IF r.ok
    THEN [out |-> r, calls |-> attempt, delays |-> delays]
    ELSE IF attempt = config.max_attempts
         THEN [out |-> r, calls |-> attempt, delays |-> delays]
         ELSE retry_loop_retrying_all(config, func, rand, attempt + 1,
                        Append(delays, calculate_delay(attempt, config, rand[attempt])))

\* A variant that invokes the function once more after the attempt that succeeded
\* and returns the first value.
RECURSIVE retry_loop_confirming(_, _, _, _, _)
retry_loop_confirming(config, func, rand, attempt, delays) ==
    LET r == func[attempt] IN
    IF r.ok
    THEN [out |-> r, calls |-> attempt + 1, delays |-> delays]
    ELSE IF IsInstance(r.exc, config.retryable_exceptions) /\ attempt < config.max_attempts
         THEN retry_loop_confirming(config, func, rand, attempt + 1,
                        Append(delays, calculate_delay(attempt, config, rand[attempt])))
         ELSE [out |-> r, calls |-> attempt, delays |-> delays]

\* A variant of the blocking wrapper that goes to the next attempt without sleeping.
RECURSIVE retry_sync_loop(_, _, _, _, _)
RECURSIVE retry_sync_loop_eager(_, _, _, _, _)
retry_sync_loop_eager(config, func, rand, attempt, delays) ==
    LET r == func[attempt] IN
    IF r.ok \/ ~IsInstance(r.exc, config.retryable_exceptions) \/ attempt = config.max_attempts
    THEN [out |-> r, calls |-> attempt, delays |-> delays]
    ELSE retry_sync_loop_eager(config, func, rand, attempt + 1, delays)

\* rand[k] is the draw calculate_delay makes after the k-th invocation.
RECURSIVE retry_loop(_, _, _, _, _)
retry_loop(config, func, rand, attempt, delays) ==
    LET r == func[attempt] IN
    IF r.ok
    THEN [out |-> r, calls |-> attempt, delays |-> delays]
    ELSE IF IsInstance(r.exc, config.retryable_exceptions)
         THEN IF attempt = config.max_attempts
              THEN [out |-> r, calls |-> attempt, delays |-> delays]
              ELSE retry_loop(config, func, rand, attempt + 1,
                              Append(delays, calculate_delay(attempt, config, rand[attempt])))
         ELSE [out |-> r, calls |-> attempt, delays |-> delays]

\* Lines 46-75, the wrapper of retry_async, is retry_loop: the awaited call of line
\* 51 and asyncio.sleep at line 68.
retry_async(config, func, rand) == retry_loop(config, func, rand, 1, <<>>)

\* Lines 87-117, the wrapper of retry_sync: the loop over the attempts with the
\* blocking call of line 92 and time.sleep at line 110.
retry_sync_loop(config, func, rand, attempt, delays) ==
    LET r == func[attempt] IN
    IF r.ok
    THEN [out |-> r, calls |-> attempt, delays |-> delays]                   \* line 92
    ELSE IF ~IsInstance(r.exc, config.retryable_exceptions)
         THEN [out |-> r, calls |-> attempt, delays |-> delays]              \* line 114
         ELSE IF attempt = config.max_attempts
              THEN [out |-> r, calls |-> attempt, delays |-> delays]         \* line 101
              ELSE LET delay == calculate_delay(attempt, config, rand[attempt])
                   IN  retry_sync_loop(config, func, rand, attempt + 1, Append(delays, delay))

retry_sync(config, func, rand) == retry_sync_loop(config, func, rand, 1, <<>>)

LLM_RETRY_CONFIG ==
    [max_attempts |-> 3, base_delay |-> 2000, max_delay |-> 30000, exponential_base |-> 2,
     jitter |-> TRUE, retryable_exceptions |-> {"ConnectionError", "TimeoutError", "Exception"}]

VECTOR_DB_RETRY_CONFIG ==
    [max_attempts |-> 2, base_delay |-> 1000, max_delay |-> 10000, exponential_base |-> 2,
     jitter |-> TRUE, retryable_exceptions |-> {"ConnectionError", "TimeoutError"}]

FILE_PROCESSING_RETRY_CONFIG ==
    [max_attempts |-> 2, base_delay |-> 500, max_delay |-> 5000, exponential_base |-> 2,
     jitter |-> FALSE, retryable_exceptions |-> {"IOError", "OSError"}]

-----------------------------------------------------------------------------
\* app/services/file_service.py

\* The upload directory: path (file id and extension) -> what the bytes of the file
\* decode to. save_file stores one file per id; "cv-both" is an id with two files.
\* The content is
\*   "text"          decodes to non-blank text
\*   "blank"         decodes to nothing but whitespace
\*   "corrupt"       the decoder (or open) raises
\*   "legacy_text"   .txt, not valid UTF-8, non-blank as latin-1
\*   "legacy_blank"  .txt, not valid UTF-8, only whitespace as latin-1 (e.g. b"\xa0")
get_file_path(file_id, file_ext) == [id |-> file_id, ext |-> file_ext]

StoredFiles ==
    { <<"cv-pdf", ".pdf", "text">>, <<"scan-pdf", ".pdf", "blank">>,
      <<"bad-pdf", ".pdf", "corrupt">>,
      <<"cv-docx", ".docx", "text">>, <<"report-empty", ".docx", "blank">>,
      <<"bad-docx", ".docx", "corrupt">>,
      <<"report-txt", ".txt", "text">>, <<"empty-txt", ".txt", "blank">>,
      <<"bad-txt", ".txt", "corrupt">>, <<"legacy-txt", ".txt", "legacy_text">>,
      <<"cv-nbsp", ".txt", "legacy_blank">>,
      <<"cv-both", ".pdf", "corrupt">>, <<"cv-both", ".docx", "text">> }

UploadDir ==
    [file_path \in {get_file_path(f[1], f[2]) : f \in StoredFiles} |->
        (CHOOSE f \in StoredFiles : get_file_path(f[1], f[2]) = file_path)[3]]

\* os.path.exists(file_path)
path_exists(file_path) == file_path \in DOMAIN UploadDir

\* What a decoder finds at the path; "missing" makes open() raise.
FileContent(file_path) ==
    IF path_exists(file_path) THEN UploadDir[file_path] ELSE "missing"

_extract_from_pdf(file_path) ==
    LET c == FileContent(file_path) IN
    CASE c = "text" -> Return("text")
      [] c = "blank" ->
            Raise("FileProcessingError",
                  "PDF extraction failed: PDF appears to be empty or contains only images")
      [] OTHER -> Raise("FileProcessingError", "PDF extraction failed: cannot read PDF")

_extract_from_docx(file_path) ==
    LET c == FileContent(file_path) IN
    CASE c = "text" -> Return("text")
      [] c = "blank" ->
            Raise("FileProcessingError", "DOCX extraction failed: DOCX file appears to be empty")
      [] OTHER -> Raise("FileProcessingError", "DOCX extraction failed: cannot read DOCX")

_extract_from_txt(file_path) ==
    LET c == FileContent(file_path) IN
    CASE c = "text" -> Return("text")
      [] c = "blank" -> Raise("FileProcessingError", "TXT extraction failed: TXT file is empty")
      [] c = "legacy_text" -> Return("text")   \* UnicodeDecodeError, then latin-1
      [] c = "legacy_blank" -> Return("")      \* latin-1 branch returns text.strip() unchecked
      [] OTHER -> Raise("FileProcessingError", "TXT extraction failed: cannot read file")

\* The function retry_sync wraps: every exception leaves it as a FileProcessingError.
extract_text_from_file_attempt(file_path) ==
    CASE file_path.ext = ".pdf" -> _extract_from_pdf(file_path)
      [] file_path.ext = ".docx" -> _extract_from_docx(file_path)
      [] file_path.ext = ".txt" -> _extract_from_txt(file_path)
      [] OTHER -> Raise("FileProcessingError", "Unsupported file type: " \o file_path.ext)

\* Lines 60-78 with the decorator of line 60: the outcome, the invocations made and
\* the delays slept. FILE_PROCESSING_RETRY_CONFIG has jitter off: the draws are not
\* used.
extract_text_from_file_run(file_path) ==
    retry_sync(FILE_PROCESSING_RETRY_CONFIG,
               [k \in 1..FILE_PROCESSING_RETRY_CONFIG.max_attempts |->
                    extract_text_from_file_attempt(file_path)],
               [k \in 1..FILE_PROCESSING_RETRY_CONFIG.max_attempts |-> 0])

extract_text_from_file(file_path) == extract_text_from_file_run(file_path).out

extract_text(file_path) ==
    IF ~path_exists(file_path)
    THEN Raise("HTTPException", "404: File not found")
    ELSE extract_text_from_file(file_path)

-----------------------------------------------------------------------------
\* app/services/vector_service.py

\* The names class VectorService defines, and the attributes __init__ sets.
VectorServiceAttrs ==
    {"client", "collection", "_get_or_create_collection", "_initialize_default_data",
     "add_job_description", "add_scoring_rubric", "search_context", "_get_fallback_context",
     "get_job_description_context", "get_scoring_rubric_context", "health_check"}

\* A dict that collection.query returns: keys are the keys it holds, the other
\* fields their values (one inner list per query text). An empty outer list also
\* stands for a value of None, which the code treats alike.
QueryResult(keys, documents, metadatas, distances) ==
    [keys |-> keys, documents |-> documents, metadatas |-> metadatas, distances |-> distances]

\* results[key]
Subscript(results, key) ==
    IF key \in results.keys THEN Return(results[key]) ELSE Raise("KeyError", key)

\* list[i], counting from 1.
Index(list, i) ==
    IF i \in DOMAIN list THEN Return(list[i]) ELSE Raise("IndexError", "list index out of range")

\* Lines 167 and 168: results[key][0][i] if results[key][0] else default.
item_field(results, key, i, default) ==
    LET lists == Subscript(results, key) IN
    IF ~lists.ok THEN lists ELSE
    LET first == Index(lists.val, 1) IN
    IF ~first.ok THEN first ELSE
    IF first.val = <<>> THEN Return(default) ELSE Index(first.val, i)

\* Lines 177-190; distances in hundredths.
_get_fallback_context ==
    << [content |-> "General software engineering skills: programming languages, problem-solving, system design, testing, debugging, version control, and collaboration.",
        metadata |-> [type |-> "fallback", category |-> "general_skills"],
        distance |-> 50],
       [content |-> "Technical evaluation criteria: code quality, architecture design, documentation, testing coverage, performance optimization, and best practices.",
        metadata |-> [type |-> "fallback", category |-> "evaluation_criteria"],
        distance |-> 50] >>

\* Lines 153-171, the try block; query_outcome is what collection.query does.
search_context_try(query, n_results, query_outcome) ==
    IF ~query_outcome.ok THEN query_outcome ELSE
    LET results == query_outcome.val
        documents == Subscript(results, "documents")
    IN
    IF ~documents.ok THEN documents ELSE
    IF documents.val = <<>> \/ documents.val[1] = <<>>
    THEN Return(_get_fallback_context)
    ELSE
    LET docs == documents.val[1]
        metadata == [i \in DOMAIN docs |-> item_field(results, "metadatas", i, <<>>)]
        distance == [i \in DOMAIN docs |-> item_field(results, "distances", i, 100)]
        failing == {i \in DOMAIN docs : ~metadata[i].ok \/ ~distance[i].ok}
    IN
    IF failing # {}
    THEN LET i == CHOOSE i \in failing : \A other \in failing : i <= other
         IN  IF ~metadata[i].ok THEN metadata[i] ELSE distance[i]
    ELSE Return([i \in DOMAIN docs |->
                    [content |-> docs[i], metadata |-> metadata[i].val,
                     distance |-> distance[i].val]])

\* A variant whose handler re-raises as VectorDatabaseError instead of degrading.
search_context_attempt_raising(query, n_results, query_outcome) ==
    LET try == search_context_try(query, n_results, query_outcome) IN
    IF ~try.ok /\ IsInstance(try.exc, {"Exception"})
    THEN Raise("VectorDatabaseError", "Vector search failed: " \o try.msg)
    ELSE try

\* Lines 152-175: the function retry_sync wraps.
search_context_attempt(query, n_results, query_outcome) ==
    LET try == search_context_try(query, n_results, query_outcome) IN
    IF ~try.ok /\ IsInstance(try.exc, {"Exception"})
    THEN Return(_get_fallback_context)
    ELSE try

\* Lines 149-175; query_outcomes[k] is what collection.query does at the k-th
\* invocation.
search_context(query, n_results, query_outcomes, rand) ==
    retry_sync(VECTOR_DB_RETRY_CONFIG,
               [k \in 1..VECTOR_DB_RETRY_CONFIG.max_attempts |->
                    search_context_attempt(query, n_results, query_outcomes[k])],
               rand)

\* Line 194 looks up self.search_relevant_context before anything else; the class
\* defines no such name, so the lookup raises and lines 200-209 have no input.
get_job_description_context(job_description) ==
    LET method == GetAttr(VectorServiceAttrs, "VectorService", "search_relevant_context") IN
    CASE ~method.ok -> method

\* Line 213: the same lookup.
get_scoring_rubric_context(evaluation_type) ==
    LET method == GetAttr(VectorServiceAttrs, "VectorService", "search_relevant_context") IN
    CASE ~method.ok -> method

-----------------------------------------------------------------------------
\* app/services/llm_service.py

\* The names class LLMService defines; __init__ sets no instance attribute.
LLMServiceAttrs ==
    {"setup_clients", "evaluate_cv", "evaluate_project", "generate_summary",
     "_create_cv_evaluation_prompt", "_create_project_evaluation_prompt",
     "_create_summary_prompt", "_evaluate_with_openai", "_evaluate_with_gemini",
     "_call_openai", "_call_gemini", "_parse_json_response",
     "_mock_cv_evaluation", "_mock_project_evaluation"}

\* The parameters each operation accepts besides self.
EvaluateCvParams == {"cv_text", "job_requirements", "context"}
EvaluateProjectParams == {"project_text", "job_requirements", "context"}

_mock_cv_evaluation ==
    [k \in {"technical_skills_match", "experience_level", "relevant_achievements",
            "cultural_fit", "cv_match_rate", "cv_feedback"} |->
        CASE k = "technical_skills_match" -> <<82>>
          [] k = "experience_level" -> <<75>>
          [] k = "relevant_achievements" -> <<68>>
          [] k = "cultural_fit" -> <<85>>
          [] k = "cv_match_rate" -> <<82>>
          [] k = "cv_feedback" ->
                <<"Strong in backend and cloud, limited AI integration experience.">>]

_mock_project_evaluation ==
    [k \in {"correctness", "code_quality", "resilience", "documentation",
            "creativity_bonus", "project_score", "project_feedback"} |->
        CASE k = "correctness" -> <<420>>
          [] k = "code_quality" -> <<380>>
          [] k = "resilience" -> <<350>>
          [] k = "documentation" -> <<400>>
          [] k = "creativity_bonus" -> <<320>>
          [] k = "project_score" -> <<370>>
          [] k = "project_feedback" ->
                <<"Meets prompt chaining requirements, lacks error handling robustness.">>]

\* A raw provider response is a sequence of symbols: the two braces, a symbol of
\* prose, and two symbols that each stand for a whole list of JSON members: "m" the
\* members of a CV evaluation with every score in range, "o" the same with
\* technical_skills_match = 1.5.
Symbols == {"{", "}", "x", "m", "o"}

\* str.find and str.rfind: the 0-based index of the first and of the last
\* occurrence, -1 when there is none.
find(text, symbol) ==
    LET at == {i \in DOMAIN text : text[i] = symbol} IN
    IF at = {} THEN -1 ELSE (CHOOSE i \in at : \A other \in at : i <= other) - 1

rfind(text, symbol) ==
    LET at == {i \in DOMAIN text : text[i] = symbol} IN
    IF at = {} THEN -1 ELSE (CHOOSE i \in at : \A other \in at : i >= other) - 1

\* text[start:end] for 0 <= start and 0 <= end: empty when end <= start.
Slice(text, start, end) ==
    LET stop == Min(end, Len(text)) IN
    [i \in 1..Max(0, stop - start) |-> text[start + i]]

\* json.loads: an object, or JSONDecodeError for the empty text and for anything
\* that is not exactly one JSON value.
json_loads(json_str) ==
    CASE json_str = <<"{", "}">> -> Return(<<>>)     \* the empty dict
      [] json_str = <<"{", "m", "}">> -> Return(_mock_cv_evaluation)
      [] json_str = <<"{", "o", "}">> ->
            Return([_mock_cv_evaluation EXCEPT !["technical_skills_match"] = <<150>>])
      [] OTHER -> Raise("JSONDecodeError", "Expecting value")

\* Lines 204-221.
_parse_json_response(raw_response, eval_type) ==
    LET start_idx == find(raw_response, "{")
        end_idx == rfind(raw_response, "}") + 1
        parsed == IF start_idx # -1 /\ end_idx # 0
                  THEN json_loads(Slice(raw_response, start_idx, end_idx))
                  ELSE Raise("ValueError", "No JSON found in response")
    IN  IF parsed.ok
        THEN parsed
        ELSE IF eval_type = "cv"
             THEN Return(_mock_cv_evaluation)
             ELSE Return(_mock_project_evaluation)

\* str.strip on the texts a provider answers in the model.
strip(text) ==
    CASE text = " {m} " -> "{m}"
      [] text = "  " -> ""
      [] OTHER -> text

\* The body of _call_openai (lines 173-184) and of _call_gemini (189-202): the content
\* of the answer, stripped, or LLMServiceError for whatever the client raised.
provider_attempt(name, outcome) ==
    IF outcome.ok
    THEN Return(strip(outcome.val))
    ELSE Raise("LLMServiceError", name \o " API call failed: " \o outcome.msg)

\* Lines 171-184 with the decorator of line 171: client[k] is what the k-th request
\* to the OpenAI client does.
_call_openai(client, rand) ==
    retry_async(LLM_RETRY_CONFIG,
                [k \in DOMAIN client |-> provider_attempt("OpenAI", client[k])], rand)

\* Lines 186-202.
_call_gemini(client, rand) ==
    retry_async(LLM_RETRY_CONFIG,
                [k \in DOMAIN client |-> provider_attempt("Gemini", client[k])], rand)

\* The provider backends consulted by lines 38-45 (57-64, 76-83) of an operation:
\* the statement before the dispatch raises, so self.provider is not read and no
\* backend is called.
provider_calls(op) ==
    LET prompt ==
            CASE op = "evaluate_cv" ->
                    GetAttr(LLMServiceAttrs, "LLMService", "_create_cv_prompt")
              [] op = "evaluate_project" ->
                    GetAttr(LLMServiceAttrs, "LLMService", "_create_project_prompt")
              [] op = "generate_summary" ->
                    Raise("TypeError",
                          "_create_summary_prompt() takes 3 positional arguments but 4 were given")
    IN  CASE ~prompt.ok -> <<>>

\* try: line 38 looks up self._create_cv_prompt, which the class does not define, so
\* the body raises before the provider is consulted. except (line 50) catches it and
\* line 52 looks up self._get_mock_cv_evaluation, which the class does not define
\* either: that AttributeError is raised inside the handler and leaves evaluate_cv.
evaluate_cv(cv_text, job_requirements, context) ==
    LET prompt == GetAttr(LLMServiceAttrs, "LLMService", "_create_cv_prompt")
        fallback == GetAttr(LLMServiceAttrs, "LLMService", "_get_mock_cv_evaluation")
    IN  CASE ~prompt.ok /\ ~fallback.ok -> fallback

evaluate_project(project_text, job_requirements, context) ==
    LET prompt == GetAttr(LLMServiceAttrs, "LLMService", "_create_project_prompt")
        fallback == GetAttr(LLMServiceAttrs, "LLMService", "_get_mock_project_evaluation")
    IN  CASE ~prompt.ok /\ ~fallback.ok -> fallback

\* _create_summary_prompt exists but takes two arguments besides self and line 76
\* passes three: the call raises TypeError. The handler's self._get_mock_summary is
\* not defined.
generate_summary(cv_eval, project_eval, job_requirements) ==
    LET prompt == Raise("TypeError",
                        "_create_summary_prompt() takes 3 positional arguments but 4 were given")
        fallback == GetAttr(LLMServiceAttrs, "LLMService", "_get_mock_summary")
    IN  CASE ~prompt.ok /\ ~fallback.ok -> fallback

-----------------------------------------------------------------------------
\* app/services/evaluation_service.py

Exts == <<".pdf", ".docx", ".txt">>

\* The for loop of _extract_file_text from the i-th extension on: the bare except
\* swallows every failure of extract_text and moves to the next extension.
RECURSIVE probe_extensions(_, _)
probe_extensions(file_id, i) ==
    IF i > Len(Exts)
    THEN Raise("Exception", "Could not find or read file with ID: " \o file_id)
    ELSE LET r == extract_text(get_file_path(file_id, Exts[i])) IN
         IF r.ok THEN r ELSE probe_extensions(file_id, i + 1)

\* A variant that reports a file it could not read as empty text.
_extract_file_text_swallowing(file_id) ==
    LET r == probe_extensions(file_id, 1) IN
    IF r.ok THEN r ELSE Return("")

_extract_file_text(file_id) ==
    LET r == probe_extensions(file_id, 1) IN
    IF r.ok
    THEN r
    ELSE Raise("Exception", "Failed to extract text from file " \o file_id \o ": " \o r.msg)

\* A call with keyword arguments: a keyword the callee does not accept is a TypeError.
CallKw(params, kwargs, fname, outcome) ==
    IF kwargs \subseteq params
    THEN outcome
    ELSE Raise("TypeError", fname \o "() got an unexpected keyword argument")

EmptyDict == <<>>

dict_get(d, key, default) == IF key \in DOMAIN d THEN d[key][1] ELSE default

\* An entry of the log of the calls a task makes on its collaborators: the
\* operation, its first argument, and the provider passed along ("" when the
\* operation takes none).
CallRecord(op, arg, provider) == [op |-> op, arg |-> arg, provider |-> provider]

\* Lines 54-91 of _process_evaluation: context retrieval, the two evaluation legs,
\* the summary and the assembly of the result, with the calls made on the way. No
\* step up to the first raise suspends.
run_after_extraction(request, cv_text, project_text) ==
    LET provider == Get(request.llm_provider)
        calls1 == <<CallRecord("get_job_description_context", request.job_description, "")>>
        enhanced_job_description == get_job_description_context(request.job_description)
    IN
    IF ~enhanced_job_description.ok
    THEN [out |-> enhanced_job_description, calls |-> calls1] ELSE
    LET calls2 == Append(calls1, CallRecord("get_scoring_rubric_context", "cv", ""))
        cv_scoring_context == get_scoring_rubric_context("cv")
    IN
    IF ~cv_scoring_context.ok THEN [out |-> cv_scoring_context, calls |-> calls2] ELSE
    LET calls3 == Append(calls2, CallRecord("get_scoring_rubric_context", "project", ""))
        project_scoring_context == get_scoring_rubric_context("project")
    IN
    IF ~project_scoring_context.ok
    THEN [out |-> project_scoring_context, calls |-> calls3] ELSE
    LET cv_leg == cv_text # ""
        calls4 == IF cv_leg
                  THEN Append(calls3, CallRecord("evaluate_cv", cv_text, provider))
                  ELSE calls3
        cv_result ==
            IF cv_leg
            THEN CallKw(EvaluateCvParams, {"cv_text", "job_description", "provider"},
                        "evaluate_cv", evaluate_cv(cv_text, "", ""))
            ELSE Return(EmptyDict)
    IN
    IF ~cv_result.ok THEN [out |-> cv_result, calls |-> calls4] ELSE
    LET project_leg == /\ project_text # ""
                       /\ IsSet(request.study_case_brief)
                       /\ request.study_case_brief # Some("")
        calls5 == IF project_leg
                  THEN Append(calls4, CallRecord("evaluate_project", project_text, provider))
                  ELSE calls4
        project_result ==
            IF project_leg
            THEN CallKw(EvaluateProjectParams, {"project_text", "study_case_brief", "provider"},
                        "evaluate_project", evaluate_project(project_text, "", ""))
            ELSE Return(EmptyDict)
    IN
    IF ~project_result.ok THEN [out |-> project_result, calls |-> calls5] ELSE
    LET overall_summary == GetAttr(LLMServiceAttrs, "LLMService", "generate_overall_summary") IN
    IF ~overall_summary.ok THEN [out |-> overall_summary, calls |-> calls5] ELSE
    [out |-> Return(CompleteEvaluationResult(
               dict_get(cv_result.val, "cv_match_rate", 0),
               dict_get(cv_result.val, "cv_feedback", "No CV evaluation performed"),
               dict_get(project_result.val, "project_score", 0),
               dict_get(project_result.val, "project_feedback", "No project evaluation performed"),
               overall_summary.val)),
     calls |-> Append(calls5, CallRecord("generate_overall_summary", "", provider))]

\* What lines 54-91 end with: the assembled result, or the first exception raised.
evaluate_after_extraction(request, cv_text, project_text) ==
    run_after_extraction(request, cv_text, project_text).out

\* Line 42.
mark_processing(job) == [job EXCEPT !.status = PROCESSING]

\* Lines 94-96.
mark_completed(job, complete_result, now) ==
    [job EXCEPT !.status = COMPLETED, !.completed_at = Some(now),
                !.result = Some(complete_result)]

\* Variants of the except block with one slip each.
mark_failed_requeued(job, e, now) ==
    [job EXCEPT !.status = QUEUED, !.error_message = Some(e.msg),
                !.completed_at = Some(now)]

mark_failed_no_timestamp(job, e, now) ==
    [job EXCEPT !.status = FAILED, !.error_message = Some(e.msg)]

mark_failed_no_message(job, e, now) ==
    [job EXCEPT !.status = FAILED, !.completed_at = Some(now)]

mark_failed_no_status(job, e, now) ==
    [job EXCEPT !.error_message = Some(e.msg), !.completed_at = Some(now)]

\* Lines 100-102: the three assignments of the except block; none of them suspends.
mark_failed(job, e, now) ==
    [job EXCEPT !.status = FAILED, !.error_message = Some(e.msg),
                !.completed_at = Some(now)]

\* uuid.uuid4(): an id no earlier call returned.
uuid4 == issued + 1

-----------------------------------------------------------------------------
\* The requests the clients send (the bodies of POST /evaluate).

IsBlank(text) == text \in {"", "  "}

Requests ==
    { EvaluationRequest(Some("cv-pdf"), None, "Backend Engineer", None, OPENAI),
      EvaluationRequest(Some("cv-pdf"), Some("report-txt"), "Backend Engineer",
                        Some("brief"), GEMINI),
      EvaluationRequest(Some("no-such-file"), None, "Backend Engineer", None, MOCK),
      EvaluationRequest(Some("cv-pdf"), Some("report-empty"), "Backend Engineer",
                        Some("brief"), MOCK),
      EvaluationRequest(None, Some("report-txt"), "Backend Engineer", None, MOCK),
      EvaluationRequest(None, None, "Backend Engineer", None, OPENAI),
      EvaluationRequest(Some("cv-pdf"), None, "  ", None, OPENAI) }

\* A response: the route, the status code and the job id in the body (0: none).
NoResponse == [op |-> "none", code |-> 0, id |-> 0]

Response(op, code, id) == [op |-> op, code |-> code, id |-> id]

NoCall == [op |-> "none", args |-> <<>>, out |-> Return("")]

\* The positions of a background task.
Scheduled == "scheduled"            \* created by create_task, not yet run
AtExtractCv == "extract_cv"         \* after line 42
AtExtractProject == "extract_project"
AtContext == "context"              \* before line 55
Done == "done"                      \* the coroutine returned
Crashed == "crashed"                \* the coroutine ended with an exception

Frame(pc, request, cv_text, project_text) ==
    [pc |-> pc, request |-> request, cv_text |-> cv_text, project_text |-> project_text,
     calls |-> <<>>]

\* The frame of a task after one more call on a collaborator.
Called(frame, op, arg) ==
    [frame EXCEPT !.calls = Append(@, CallRecord(op, arg, ""))]

\* No task is between its first and its last step.
LoopIdle == \A j \in DOMAIN tasks : tasks[j].pc \in {Scheduled, Done, Crashed}

Put(f, k, v) == [x \in DOMAIN f \cup {k} |-> IF x = k THEN v ELSE f[x]]

Remove(f, ks) == [x \in DOMAIN f \ ks |-> f[x]]

Init ==
    /\ jobs = <<>>
    /\ tasks = <<>>
    /\ issued = 0
    /\ clock = 0
    /\ response = NoResponse
    /\ llm = NoCall
    /\ call = NoCall

\* The wall clock advances.
Tick ==
    /\ clock < MaxClock
    /\ clock' = clock + 1
    /\ UNCHANGED <<jobs, tasks, issued, response, llm, call>>

\* A variant that runs the first step of the processing before it returns.
start_evaluation_inline(request) ==
    LET job_id == uuid4
        job == EvaluationResult(job_id, QUEUED, clock)
    IN  /\ jobs' = Put(jobs, job_id, mark_processing(job))
        /\ tasks' = Put(tasks, job_id, Frame(AtExtractCv, request, "", ""))
        /\ issued' = issued + 1
        /\ response' = Response("evaluate", 200, job_id)

\* EvaluationService.start_evaluation, lines 23-36, and the response the route
\* builds from its return value.
start_evaluation(request) ==
    LET job_id == uuid4
        job == EvaluationResult(job_id, QUEUED, clock)
    IN  /\ jobs' = Put(jobs, job_id, job)
        /\ tasks' = Put(tasks, job_id, Frame(Scheduled, request, "", ""))
        /\ issued' = issued + 1
        /\ response' = Response("evaluate", 200, job_id)

\* A variant that creates the job before it validates the request.
Evaluate_validating_late(request) ==
    /\ LoopIdle
    /\ issued < MaxJobs
    /\ jobs' = Put(jobs, uuid4, EvaluationResult(uuid4, QUEUED, clock))
    /\ tasks' = Put(tasks, uuid4, Frame(Scheduled, request, "", ""))
    /\ issued' = issued + 1
    /\ response' =
          IF \/ ~IsSet(request.cv_file_id) /\ ~IsSet(request.project_report_file_id)
             \/ IsBlank(request.job_description)
          THEN Response("evaluate", 400, 0)
          ELSE Response("evaluate", 200, uuid4)
    /\ UNCHANGED <<clock, llm, call>>

\* POST /evaluate (routers/evaluation.py, lines 7-47).
Evaluate(request) ==
    /\ LoopIdle
    /\ IF ~IsSet(request.cv_file_id) /\ ~IsSet(request.project_report_file_id)
       THEN /\ response' = Response("evaluate", 400, 0)
            /\ UNCHANGED <<jobs, tasks, issued>>
       ELSE IF IsBlank(request.job_description)
       THEN /\ response' = Response("evaluate", 400, 0)
            /\ UNCHANGED <<jobs, tasks, issued>>
       ELSE /\ issued < MaxJobs
            /\ start_evaluation(request)
    /\ UNCHANGED <<clock, llm, call>>

\* A variant that records the failure on the job submitted last, as if the job id
\* were kept on the shared service object.
except_block_latest(j, e, calls) ==
    IF j \in DOMAIN jobs
    THEN LET latest == CHOOSE k \in DOMAIN jobs : \A other \in DOMAIN jobs : other <= k
         IN  /\ jobs' = [jobs EXCEPT ![latest] = mark_failed(@, e, clock)]
             /\ tasks' = [tasks EXCEPT ![j].pc = Done, ![j].calls = @ \o calls]
    ELSE /\ jobs' = jobs
         /\ tasks' = [tasks EXCEPT ![j].pc = Crashed, ![j].calls = @ \o calls]

\* A variant of the handler that stores a new FAILED record when the record of the
\* job is gone.
except_block_reinserting(j, e, calls) ==
    /\ jobs' = IF j \in DOMAIN jobs
               THEN [jobs EXCEPT ![j] = mark_failed(@, e, clock)]
               ELSE Put(jobs, j, mark_failed(EvaluationResult(j, QUEUED, clock), e, clock))
    /\ tasks' = [tasks EXCEPT ![j].pc = Done, ![j].calls = @ \o calls]

\* The except block of _process_evaluation (lines 98-102) entered with exception e:
\* self.jobs[job_id] raises KeyError inside the handler when the record is gone, and
\* the task then ends with that exception. calls are the calls the step made on
\* collaborators before e was raised.
except_block(j, e, calls) ==
    IF j \in DOMAIN jobs
    THEN /\ jobs' = [jobs EXCEPT ![j] = mark_failed(@, e, clock)]
         /\ tasks' = [tasks EXCEPT ![j].pc = Done, ![j].calls = @ \o calls]
    ELSE /\ jobs' = jobs
         /\ tasks' = [tasks EXCEPT ![j].pc = Crashed, ![j].calls = @ \o calls]

\* The first step of the task: line 42. The loop runs the callbacks create_task
\* registered in the order they were registered, so tasks begin in creation order.
TaskBegin(j) ==
    /\ j \in DOMAIN tasks
    /\ tasks[j].pc = Scheduled
    /\ LoopIdle
    /\ \A i \in DOMAIN tasks : i < j => tasks[i].pc # Scheduled
    /\ IF j \in DOMAIN jobs
       THEN /\ jobs' = [jobs EXCEPT ![j] = mark_processing(@)]
            /\ tasks' = [tasks EXCEPT ![j].pc = AtExtractCv]
       ELSE except_block(j, Raise("KeyError", "job_id"), <<>>)
    /\ UNCHANGED <<issued, clock, response, llm, call>>

\* Lines 48-49 without the propagation of the exception: the task goes on with an
\* empty CV text.
TaskExtractCv_continuing(j) ==
    /\ j \in DOMAIN tasks
    /\ tasks[j].pc = AtExtractCv
    /\ LET file_id == tasks[j].request.cv_file_id IN
       IF IsSet(file_id) /\ file_id # Some("")
       THEN LET r == _extract_file_text(Get(file_id)) IN
            tasks' = [tasks EXCEPT ![j] =
                        Called([@ EXCEPT !.pc = AtExtractProject,
                                         !.cv_text = IF r.ok THEN r.val ELSE ""],
                               "_extract_file_text", Get(file_id))]
       ELSE tasks' = [tasks EXCEPT ![j].pc = AtExtractProject]
    /\ UNCHANGED <<jobs, issued, clock, response, llm, call>>

\* Lines 45-49.
TaskExtractCv(j) ==
    /\ j \in DOMAIN tasks
    /\ tasks[j].pc = AtExtractCv
    /\ LET file_id == tasks[j].request.cv_file_id IN
       IF IsSet(file_id) /\ file_id # Some("")
       THEN LET r == _extract_file_text(Get(file_id)) IN
            IF r.ok
            THEN /\ tasks' = [tasks EXCEPT ![j] =
                                Called([@ EXCEPT !.pc = AtExtractProject, !.cv_text = r.val],
                                       "_extract_file_text", Get(file_id))]
                 /\ jobs' = jobs
            ELSE except_block(j, r, <<CallRecord("_extract_file_text", Get(file_id), "")>>)
       ELSE /\ tasks' = [tasks EXCEPT ![j].pc = AtExtractProject]
            /\ jobs' = jobs
    /\ UNCHANGED <<issued, clock, response, llm, call>>

\* Lines 51-52.
TaskExtractProject(j) ==
    /\ j \in DOMAIN tasks
    /\ tasks[j].pc = AtExtractProject
    /\ LET file_id == tasks[j].request.project_report_file_id IN
       IF IsSet(file_id) /\ file_id # Some("")
       THEN LET r == _extract_file_text(Get(file_id)) IN
            IF r.ok
            THEN /\ tasks' = [tasks EXCEPT ![j] =
                                Called([@ EXCEPT !.pc = AtContext, !.project_text = r.val],
                                       "_extract_file_text", Get(file_id))]
                 /\ jobs' = jobs
            ELSE except_block(j, r, <<CallRecord("_extract_file_text", Get(file_id), "")>>)
       ELSE /\ tasks' = [tasks EXCEPT ![j].pc = AtContext]
            /\ jobs' = jobs
    /\ UNCHANGED <<issued, clock, response, llm, call>>

\* Lines 54-96, and the except block when one of them raises.
TaskEvaluate(j) ==
    /\ j \in DOMAIN tasks
    /\ tasks[j].pc = AtContext
    /\ LET run == run_after_extraction(tasks[j].request, tasks[j].cv_text,
                                       tasks[j].project_text)
           r == run.out
       IN  IF r.ok
           THEN /\ jobs' = [jobs EXCEPT ![j] = mark_completed(@, r.val, clock)]
                /\ tasks' = [tasks EXCEPT ![j].pc = Done, ![j].calls = @ \o run.calls]
           ELSE except_block(j, r, run.calls)
    /\ UNCHANGED <<issued, clock, response, llm, call>>

TaskStep(j) ==
    \/ TaskBegin(j)
    \/ TaskExtractCv(j)
    \/ TaskExtractProject(j)
    \/ TaskEvaluate(j)

\* EvaluationService.get_evaluation_result, lines 120-122.
get_evaluation_result(job_id) ==
    IF job_id \in DOMAIN jobs THEN Some(jobs[job_id]) ELSE None

\* ResultResponse as built by the result routes (routers/results.py, lines 33-44).
ResultResponse(job) ==
    [id |-> job.id, status |-> job.status,
     result |-> IF job.status = COMPLETED /\ IsSet(job.result) THEN job.result ELSE None,
     error_message |-> job.error_message,
     created_at |-> job.created_at, completed_at |-> job.completed_at]

\* GET /result/{job_id} (routers/results.py, lines 7-52): reads the registry and
\* changes nothing, so it is a function of the state: the status code and the body.
get_result_route(job_id) ==
    LET job == get_evaluation_result(job_id) IN
    IF ~IsSet(job)
    THEN [code |-> 404, body |-> None]
    ELSE [code |-> 200, body |-> Some(ResultResponse(Get(job)))]

\* A variant that empties the registry.
DeleteResult_clearing(job_id) ==
    /\ LoopIdle
    /\ IF job_id \notin DOMAIN jobs
       THEN /\ response' = Response("delete", 404, 0)
            /\ jobs' = jobs
       ELSE /\ jobs' = <<>>
            /\ response' = Response("delete", 200, 0)
    /\ UNCHANGED <<tasks, issued, clock, llm, call>>

\* A variant that keeps the record and marks it as deleted instead of removing it.
DeleteResult_soft(job_id) ==
    /\ LoopIdle
    /\ IF job_id \notin DOMAIN jobs
       THEN /\ response' = Response("delete", 404, 0)
            /\ jobs' = jobs
       ELSE /\ jobs' = [jobs EXCEPT ![job_id] =
                            mark_failed(@, Raise("Exception", "Job deleted"), clock)]
            /\ response' = Response("delete", 200, 0)
    /\ UNCHANGED <<tasks, issued, clock, llm, call>>

\* DELETE /result/{job_id} (routers/results.py, lines 87-115).
DeleteResult(job_id) ==
    /\ LoopIdle
    /\ IF job_id \notin DOMAIN jobs
       THEN /\ response' = Response("delete", 404, 0)
            /\ jobs' = jobs
       ELSE /\ jobs' = Remove(jobs, {job_id})
            /\ response' = Response("delete", 200, 0)
    /\ UNCHANGED <<tasks, issued, clock, llm, call>>

\* A variant that measures the age of a job from its creation.
jobs_to_remove_by_creation(max_age_hours) ==
    {job_id \in DOMAIN jobs : clock - jobs[job_id].created_at > max_age_hours}

\* EvaluationService.cleanup_old_jobs, lines 128-140; one clock unit is one hour.
jobs_to_remove(max_age_hours) ==
    {job_id \in DOMAIN jobs :
        /\ IsSet(jobs[job_id].completed_at)
        /\ clock - Get(jobs[job_id].completed_at) > max_age_hours}

\* A variant that gives up control between the scan of lines 133-137 and the
\* deletions of lines 139-140: the ids collected wait in call.
Cleanup_yielding(max_age_hours) ==
    /\ LoopIdle
    /\ \/ /\ call.op = "none"
          /\ call' = [op |-> "cleanup", max_age_hours |-> max_age_hours,
                      jobs_to_remove |-> jobs_to_remove(max_age_hours)]
          /\ jobs' = jobs
       \/ /\ call.op = "cleanup"
          /\ call.max_age_hours = max_age_hours
          /\ jobs' = Remove(jobs, call.jobs_to_remove \cap DOMAIN jobs)
          /\ call' = NoCall
    /\ UNCHANGED <<tasks, issued, clock, response, llm>>

\* Both loops of cleanup_old_jobs run in one step: the method is synchronous, it
\* awaits nothing, and every route and task runs on the one event loop thread.
Cleanup(max_age_hours) ==
    /\ LoopIdle
    /\ jobs' = Remove(jobs, jobs_to_remove(max_age_hours))
    /\ UNCHANGED <<tasks, issued, clock, response, llm, call>>

\* A variant that reports how many jobs were ever submitted as the total.
get_job_statistics_of_submissions ==
    [total_jobs |-> issued,
     status_breakdown |->
        [s \in {jobs[j].status : j \in DOMAIN jobs} |->
            Cardinality({j \in DOMAIN jobs : jobs[j].status = s})]]

\* EvaluationService.get_job_statistics, lines 142-154.
get_job_statistics ==
    [total_jobs |-> Cardinality(DOMAIN jobs),
     status_breakdown |->
        [s \in {jobs[j].status : j \in DOMAIN jobs} |->
            Cardinality({j \in DOMAIN jobs : jobs[j].status = s})]]

\* GET /evaluate/stats (routers/evaluation.py, lines 49-63): reads the registry and
\* changes nothing.
get_evaluation_stats == [code |-> 200, body |-> get_job_statistics]

Next ==
    \/ Tick
    \/ \E request \in Requests : Evaluate(request)
    \/ \E j \in JobIds : TaskStep(j)
    \/ \E j \in JobIds : DeleteResult(j)
    \/ \E h \in 0..MaxClock : Cleanup(h)

Spec == Init /\ [][Next]_vars

\* The event loop runs every task it holds: a task that can take a step takes it.
FairSpec == Spec /\ \A j \in JobIds : WF_vars(TaskStep(j))

-----------------------------------------------------------------------------
\* Direct calls of the LLM engine (as the unit tests make them).

Texts == {None, Some(""), Some("CV text")}
Contexts == {Some(""), Some(OPENAI), Some(GEMINI), Some(MOCK)}

\* What the provider backend would answer on each attempt of a call.
Responses == UNION {[1..n -> Symbols] : n \in 0..MaxResponseLen}

Backends ==
    {Raise("ConnectionError", "provider unreachable"), Raise("LLMServiceError", "API Error")}
    \cup {Return(raw) : raw \in Responses}

Call(op, backend, args, out) ==
    [op |-> op, backend |-> backend, args |-> args, out |-> out,
     consulted |-> provider_calls(op)]

CallEvaluateCv(backend, cv_text, job_requirements, context) ==
    /\ llm' = Call("evaluate_cv", backend, <<cv_text, job_requirements, context>>,
                   evaluate_cv(cv_text, job_requirements, context))
    /\ UNCHANGED <<jobs, tasks, issued, clock, response, call>>

CallEvaluateProject(backend, project_text, job_requirements, context) ==
    /\ llm' = Call("evaluate_project", backend, <<project_text, job_requirements, context>>,
                   evaluate_project(project_text, job_requirements, context))
    /\ UNCHANGED <<jobs, tasks, issued, clock, response, call>>

CallGenerateSummary(backend, cv_eval, project_eval, job_requirements) ==
    /\ llm' = Call("generate_summary", backend, <<cv_eval, project_eval, job_requirements>>,
                   generate_summary(cv_eval, project_eval, job_requirements))
    /\ UNCHANGED <<jobs, tasks, issued, clock, response, call>>

CallParseJsonResponse(raw_response, eval_type) ==
    /\ llm' = [op |-> "_parse_json_response", backend |-> Return(raw_response),
               args |-> <<raw_response, eval_type>>,
               out |-> _parse_json_response(raw_response, eval_type), consulted |-> <<>>]
    /\ UNCHANGED <<jobs, tasks, issued, clock, response, call>>

\* What one request to a provider client can do.
ClientOutcomes ==
    {Return(" {m} "), Raise("ConnectionError", "connection refused"),
     Raise("TimeoutError", "timed out"), Raise("ValueError", "bad request")}

Clients == [1..LLM_RETRY_CONFIG.max_attempts -> ClientOutcomes]

CallProvider(name, client, rand) ==
    /\ llm' = [op |-> name, client |-> client,
               run |-> IF name = "_call_openai" THEN _call_openai(client, rand)
                                                ELSE _call_gemini(client, rand)]
    /\ UNCHANGED <<jobs, tasks, issued, clock, response, call>>

\* The engine keeps no state between calls: every behaviour is one direct call.
NextLLM ==
    \/ /\ llm.op = "none"
       /\ \E b \in Backends, t \in Texts, r \in Texts, c \in Contexts :
            CallEvaluateCv(b, t, r, c)
    \/ /\ llm.op = "none"
       /\ \E b \in Backends, t \in Texts, r \in Texts, c \in Contexts :
            CallEvaluateProject(b, t, r, c)
    \/ /\ llm.op = "none"
       /\ \E b \in Backends, t \in Texts, r \in Texts, c \in Texts :
            CallGenerateSummary(b, t, r, c)
    \/ /\ llm.op = "none"
       /\ \E raw \in Responses, eval_type \in {"cv", "project"} :
            CallParseJsonResponse(raw, eval_type)
    \/ /\ llm.op = "none"
       /\ \E name \in {"_call_openai", "_call_gemini"}, client \in Clients,
             rand \in [1..LLM_RETRY_CONFIG.max_attempts -> Uniform] :
            CallProvider(name, client, rand)

SpecLLM == Init /\ [][NextLLM]_vars

-----------------------------------------------------------------------------
\* Properties of the job registry and of the background task.

Terminal == {COMPLETED, FAILED}

RequestValid(request) ==
    /\ IsSet(request.cv_file_id) \/ IsSet(request.project_report_file_id)
    /\ ~IsBlank(request.job_description)

\* The file ids a request supplies, in the order the task extracts them.
SuppliedFiles(request) ==
    (IF IsSet(request.cv_file_id) THEN <<Get(request.cv_file_id)>> ELSE <<>>)
    \o (IF IsSet(request.project_report_file_id)
        THEN <<Get(request.project_report_file_id)>> ELSE <<>>)

\* No candidate path exists for the id, or the decoder fails on the file.
ExtractionFails(file_id) ==
    LET existing == {i \in DOMAIN Exts : path_exists(get_file_path(file_id, Exts[i]))} IN
    \/ existing = {}
    \/ LET first == CHOOSE i \in existing : \A other \in existing : i <= other
       IN  ~extract_text_from_file_attempt(get_file_path(file_id, Exts[first])).ok

FailingFiles(request) ==
    SelectSeq(SuppliedFiles(request), LAMBDA f : ExtractionFails(f))

\* C1: the status of a job record only ever changes QUEUED -> PROCESSING,
\* PROCESSING -> COMPLETED or PROCESSING -> FAILED; a COMPLETED or FAILED record keeps
\* its status in every later step.
C1_StatusTransitions ==
    [][\A j \in DOMAIN jobs \cap DOMAIN jobs' :
          \/ jobs'[j].status = jobs[j].status
          \/ <<jobs[j].status, jobs'[j].status>> \in
                {<<QUEUED, PROCESSING>>, <<PROCESSING, COMPLETED>>, <<PROCESSING, FAILED>>}]_vars

\* A job has failed and, after that, a later job is being processed.
C1_Witness ==
    \E j, k \in DOMAIN jobs :
        /\ j < k
        /\ jobs[j].status = FAILED
        /\ jobs[k].status = PROCESSING

\* C2: every record has one of the four statuses, and completed_at is set exactly
\* when the status is COMPLETED or FAILED.
C2_CompletedAtIffTerminal ==
    \A j \in DOMAIN jobs :
        /\ jobs[j].status \in JobStatus
        /\ IsSet(jobs[j].completed_at) <=> jobs[j].status \in Terminal

\* A failed job carries completed_at while a queued one carries none.
C2_Witness ==
    \E j, k \in DOMAIN jobs :
        /\ jobs[j].status = FAILED /\ IsSet(jobs[j].completed_at)
        /\ jobs[k].status = QUEUED /\ ~IsSet(jobs[k].completed_at)

\* C3: result is set exactly when the status is COMPLETED and error_message exactly
\* when it is FAILED.
C3_ResultXorError ==
    \A j \in DOMAIN jobs :
        /\ IsSet(jobs[j].result) <=> jobs[j].status = COMPLETED
        /\ IsSet(jobs[j].error_message) <=> jobs[j].status = FAILED

\* A failed job with an error message and no result, next to a job in PROCESSING
\* with neither.
C3_Witness ==
    \E j, k \in DOMAIN jobs :
        /\ jobs[j].status = FAILED
        /\ IsSet(jobs[j].error_message) /\ ~IsSet(jobs[j].result)
        /\ jobs[k].status = PROCESSING
        /\ ~IsSet(jobs[k].error_message) /\ ~IsSet(jobs[k].result)

\* C4: under fair scheduling of the tasks, every job in the registry is eventually
\* COMPLETED or FAILED, unless its record is removed.
C4_EventuallyTerminal ==
    \A j \in JobIds :
        (j \in DOMAIN jobs) ~> (j \notin DOMAIN jobs \/ jobs[j].status \in Terminal)

\* Both jobs of a run have reached a terminal status and are still in the registry.
C4_Witness ==
    /\ issued = MaxJobs
    /\ \A j \in 1..issued : j \in DOMAIN jobs /\ jobs[j].status \in Terminal

\* C5: a job whose supplied files all extract ends COMPLETED.
C5_ExtractedJobsComplete ==
    \A j \in DOMAIN jobs :
        (/\ tasks[j].pc = Done
         /\ \A i \in DOMAIN SuppliedFiles(tasks[j].request) :
                _extract_file_text(SuppliedFiles(tasks[j].request)[i]).ok)
        => jobs[j].status = COMPLETED

C8_TerminalFrozen ==
    [][\A j \in DOMAIN jobs \cap DOMAIN jobs' :
          /\ jobs[j].status \in Terminal =>
                /\ jobs'[j] = jobs[j]
                /\ get_result_route(j)' = get_result_route(j)
          /\ IsSet(jobs[j].completed_at) => jobs'[j].completed_at = jobs[j].completed_at]_vars

\* A failed job is still in the registry an hour later, after another job was
\* submitted, processed and removed.
C8_Witness ==
    \E j \in DOMAIN jobs, k \in DOMAIN tasks :
        /\ jobs[j].status = FAILED
        /\ Get(jobs[j].completed_at) < clock
        /\ j < k
        /\ tasks[k].pc = Done
        /\ k \notin DOMAIN jobs

\* C9: a step that creates a job answers 200 with an id that no record and no
\* earlier job had, adds exactly that record (QUEUED, created now, no completed_at,
\* result or error_message), leaves every other record and task alone and leaves
\* the new task not yet started; and POST /evaluate answers a valid request with 200
\* whatever files the request names.
C9_Submit ==
    [][/\ issued' # issued =>
            LET id == response'.id IN
            /\ response' = Response("evaluate", 200, id)
            /\ id \notin DOMAIN jobs
            /\ id \notin DOMAIN tasks
            /\ DOMAIN jobs' = DOMAIN jobs \cup {id}
            /\ jobs'[id] = [id |-> id, status |-> QUEUED, created_at |-> clock,
                            completed_at |-> None, result |-> None, error_message |-> None]
            /\ \A k \in DOMAIN jobs : jobs'[k] = jobs[k]
            /\ tasks'[id].pc = Scheduled
            /\ \A k \in DOMAIN tasks : tasks'[k] = tasks[k]
       /\ \A request \in Requests :
            Evaluate(request) /\ RequestValid(request) =>
                response'.op = "evaluate" /\ response'.code = 200]_vars

\* A second job was just submitted for a file id that has no file: it is QUEUED and
\* its task has not started, and the submission answered 200 with its id.
C9_Witness ==
    /\ response = Response("evaluate", 200, 2)
    /\ 1 \in DOMAIN jobs
    /\ 2 \in DOMAIN jobs
    /\ jobs[2].status = QUEUED
    /\ tasks[2].pc = Scheduled
    /\ tasks[2].request.cv_file_id = Some("no-such-file")

\* C10: a direct call of evaluate_cv, evaluate_project or generate_summary returns
\* a value and does not raise.
C10_EngineNeverRaises ==
    llm.op \in {"evaluate_cv", "evaluate_project", "generate_summary"} => llm.out.ok

\* C11: with provider MOCK, evaluate_cv returns the literal CV mock for every input,
\* empty and absent texts included.
C11_MockCvLiteral ==
    (llm.op = "evaluate_cv" /\ llm.args[3] = Some(MOCK)) =>
        /\ llm.out.ok
        /\ llm.out.val = _mock_cv_evaluation

-----------------------------------------------------------------------------
\* Direct calls of VectorService.search_context.

DocMeta == [type |-> "job_description", category |-> "backend"]

\* Responses of the index: well formed ones, empty ones, and ones the code cannot
\* decode (a key missing, a list shorter than the documents).
QueryResults ==
    LET all == {"documents", "metadatas", "distances"} IN
    { QueryResult(all, <<<<"doc1">>>>, <<<<DocMeta>>>>, <<<<20>>>>),
      QueryResult(all, <<<<"doc1", "doc2">>>>, <<<<DocMeta, DocMeta>>>>, <<<<20, 30>>>>),
      QueryResult(all, <<<<"doc1", "doc2">>>>, <<<<>>>>, <<<<>>>>),
      QueryResult(all, <<>>, <<>>, <<>>),
      QueryResult(all, <<<<>>>>, <<<<>>>>, <<<<>>>>),
      QueryResult(all \ {"documents"}, <<>>, <<<<DocMeta>>>>, <<<<20>>>>),
      QueryResult(all \ {"metadatas"}, <<<<"doc1">>>>, <<>>, <<<<20>>>>),
      QueryResult(all, <<<<"doc1", "doc2">>>>, <<<<DocMeta>>>>, <<<<20, 30>>>>),
      QueryResult(all, <<<<"doc1">>>>, <<<<DocMeta>>>>, <<>>) }

QueryOutcomes ==
    {Return(results) : results \in QueryResults}
    \cup {Raise("ConnectionError", "index unreachable"), Raise("ValueError", "bad query")}

\* The responses the code can decode into at least one item.
Decodable(results) ==
    /\ {"documents", "metadatas", "distances"} \subseteq results.keys
    /\ results.documents # <<>> /\ results.documents[1] # <<>>
    /\ \A key \in {"metadatas", "distances"} :
        /\ results[key] # <<>>
        /\ results[key][1] = <<>> \/ Len(results[key][1]) >= Len(results.documents[1])

CallSearchContext(query, n_results, first, second, uniform) ==
    /\ call' = [op |-> "search_context", args |-> <<query, n_results>>,
                query_outcomes |-> <<first, second>>,
                run |-> search_context(query, n_results, <<first, second>>,
                                       <<uniform, uniform>>)]
    /\ UNCHANGED <<jobs, tasks, issued, clock, response, llm>>

NextVector ==
    \E query \in {"Backend Engineer", ""}, n_results \in {2, 3},
       first \in QueryOutcomes, second \in QueryOutcomes, uniform \in Uniform :
        CallSearchContext(query, n_results, first, second, uniform)

SpecVector == Init /\ [][NextVector]_vars

\* C12: search_context never fails and never returns an empty list: when the index
\* query raises, returns no documents or returns a response that cannot be decoded,
\* the result is exactly the two fallback items in their fixed order; otherwise it
\* is one item per document returned.
C12_RetrieveDegrades ==
    call.op = "search_context" =>
        LET first == call.query_outcomes[1] IN
        /\ call.run.out.ok
        /\ call.run.out.val # <<>>
        /\ (~first.ok \/ ~Decodable(first.val)) => call.run.out.val = _get_fallback_context
        /\ (first.ok /\ Decodable(first.val)) =>
                /\ Len(call.run.out.val) = Len(first.val.documents[1])
                /\ \A i \in DOMAIN call.run.out.val :
                        call.run.out.val[i].content = first.val.documents[1][i]

\* The index raised and the caller got the two fallback items.
C12_Witness ==
    /\ call.op = "search_context"
    /\ ~call.query_outcomes[1].ok
    /\ call.run.out.ok
    /\ Len(call.run.out.val) = 2
    /\ call.run.out.val[1].metadata.category = "general_skills"
    /\ call.run.out.val[2].metadata.category = "evaluation_criteria"

-----------------------------------------------------------------------------
\* Direct uses of the retry decorators.

RetryConfig(max_attempts, base_delay, max_delay, exponential_base, jitter, retryable_exceptions) ==
    [max_attempts |-> max_attempts, base_delay |-> base_delay, max_delay |-> max_delay,
     exponential_base |-> exponential_base, jitter |-> jitter,
     retryable_exceptions |-> retryable_exceptions]

RetryConfigs ==
    {LLM_RETRY_CONFIG, VECTOR_DB_RETRY_CONFIG, FILE_PROCESSING_RETRY_CONFIG}
    \cup {RetryConfig(n, b, c, f, j, r) :
            n \in 1..MaxAttempts, b \in {500, 2000}, c \in {1000, 30000}, f \in {2, 3},
            j \in BOOLEAN,
            r \in {{"ConnectionError", "TimeoutError"}, {"IOError", "OSError"}, {"Exception"}}}

\* What one invocation of the wrapped function can do.
AttemptOutcomes ==
    {Return("value"), Raise("ConnectionError", "connection refused"),
     Raise("ValueError", "bad input")}

Draws(config) ==
    IF config.jitter THEN [1..MaxAttempts -> Uniform] ELSE {[k \in 1..MaxAttempts |-> 0]}

\* One decorated function is called once; func[k] is what its k-th invocation does.
Execute(mode, config, func, rand) ==
    /\ call' = [op |-> mode, config |-> config, func |-> func, rand |-> rand,
                run |-> IF mode = "retry_sync" THEN retry_sync(config, func, rand)
                                               ELSE retry_async(config, func, rand)]
    /\ UNCHANGED <<jobs, tasks, issued, clock, response, llm>>

NextRetry ==
    /\ call.op = "none"
    /\ \E mode \in {"retry_sync", "retry_async"}, config \in RetryConfigs,
          func \in [1..MaxAttempts -> AttemptOutcomes] :
            \E rand \in Draws(config) : Execute(mode, config, func, rand)

SpecRetry == Init /\ [][NextRetry]_vars

Retried == call.op \in {"retry_sync", "retry_async"}

\* The k-th invocation fails with a kind the config retries.
FailsRetryable(k) ==
    /\ ~call.func[k].ok
    /\ IsInstance(call.func[k].exc, call.config.retryable_exceptions)

\* C13: when every attempt of a config with max_attempts = N >= 1 fails with a
\* retryable kind, the function is invoked exactly N times, the wrapper sleeps
\* exactly N - 1 times, and it raises the failure of the N-th invocation.
C13_ExhaustsAttempts ==
    (Retried /\ \A k \in 1..call.config.max_attempts : FailsRetryable(k)) =>
        /\ call.run.calls = call.config.max_attempts
        /\ Len(call.run.delays) = call.config.max_attempts - 1
        /\ call.run.out = call.func[call.config.max_attempts]

\* Three attempts failed, the first two with another failure than the last, and the
\* wrapper raised the last one after two sleeps.
C13_Witness ==
    /\ Retried
    /\ call.config.max_attempts = 3
    /\ \A k \in 1..3 : FailsRetryable(k)
    /\ call.func[1] # call.func[3]
    /\ call.func[2] # call.func[3]
    /\ call.run.out = call.func[3]
    /\ Len(call.run.delays) = 2

\* C14: when the k-th attempt is the first to fail with a kind that is not
\* retryable, the wrapper raises that failure at once: the function is invoked k
\* times in all and the only sleeps are the k - 1 that preceded the k-th attempt.
C14_NonRetryablePropagates ==
    Retried =>
        \A k \in 1..call.config.max_attempts :
            (/\ \A i \in 1..(k - 1) : FailsRetryable(i)
             /\ ~call.func[k].ok
             /\ ~FailsRetryable(k))
            => /\ call.run.calls = k
               /\ Len(call.run.delays) = k - 1
               /\ call.run.out = call.func[k]

\* The second of three attempts failed with a kind outside the retryable set, after
\* a retryable failure of the first: two invocations, one sleep.
C14_Witness ==
    /\ Retried
    /\ call.config.max_attempts = 3
    /\ FailsRetryable(1)
    /\ ~call.func[2].ok /\ ~FailsRetryable(2)
    /\ call.run.calls = 2
    /\ call.run.out = call.func[2]

\* C15: with jitter off, the k-th sleep lasts min(base_delay * exponential_base^(k-1),
\* max_delay); the sleeps never decrease and never exceed max_delay. (Configs with
\* base_delay >= 0 and exponential_base >= 1.)
C15_DelaySequence ==
    (Retried /\ ~call.config.jitter) =>
        LET b == call.config.base_delay
            f == call.config.exponential_base
            c == call.config.max_delay
            d == call.run.delays
        IN  /\ \A k \in DOMAIN d :
                    /\ b * Power(f, k - 1) <= c => d[k] = b * Power(f, k - 1)
                    /\ b * Power(f, k - 1) > c => d[k] = c
                    /\ d[k] <= c
            /\ \A k \in DOMAIN d : k > 1 => d[k - 1] <= d[k]

\* Three failing attempts with base 0.5 s, factor 3 and cap 1 s, jitter off: the
\* wrapper slept 0.5 s and then the cap.
C15_Witness ==
    /\ Retried
    /\ ~call.config.jitter
    /\ call.config.max_attempts = 3
    /\ \A k \in 1..3 : FailsRetryable(k)
    /\ call.run.delays = <<500, 1000>>

-----------------------------------------------------------------------------
\* Direct calls of the text extraction operations.

FileIds == {f[1] : f \in StoredFiles} \cup {"no-such-file"}

\* The paths callers pass: every id with the three candidate extensions and with
\* an extension no decoder supports.
Paths == {get_file_path(file_id, ext) : file_id \in FileIds, ext \in {".pdf", ".docx", ".txt", ".exe"}}

CallExtractText(file_path) ==
    /\ call' = [op |-> "extract_text", args |-> <<file_path>>, out |-> extract_text(file_path)]
    /\ UNCHANGED <<jobs, tasks, issued, clock, response, llm>>

CallExtractTextFromFile(file_path) ==
    /\ call' = [op |-> "extract_text_from_file", args |-> <<file_path>>,
                out |-> extract_text_from_file(file_path),
                run |-> extract_text_from_file_run(file_path)]
    /\ UNCHANGED <<jobs, tasks, issued, clock, response, llm>>

CallExtractFileText(file_id) ==
    /\ call' = [op |-> "_extract_file_text", args |-> <<file_id>>,
                out |-> _extract_file_text(file_id)]
    /\ UNCHANGED <<jobs, tasks, issued, clock, response, llm>>

NextFiles ==
    \/ \E file_path \in Paths : CallExtractText(file_path)
    \/ \E file_path \in Paths : CallExtractTextFromFile(file_path)
    \/ \E file_id \in FileIds : CallExtractFileText(file_id)

SpecFiles == Init /\ [][NextFiles]_vars

\* C16: when the extraction of the first candidate path that exists (in the order
\* .pdf, .docx, .txt) fails, the extraction of the file id fails; no later
\* extension is used.
C16_NoFallThrough ==
    (call.op = "_extract_file_text" /\ ExtractionFails(call.args[1])) => ~call.out.ok

\* C17: no extraction operation returns an empty or whitespace-only text.
C17_NoBlankSuccess ==
    (/\ call.op \in {"extract_text", "extract_text_from_file", "_extract_file_text"}
     /\ call.out.ok)
    => ~IsBlank(call.out.val)

\* C18: every failure of extract_text and of extract_text_from_file is a
\* FileProcessingError.
C18_OnlyFileProcessingError ==
    (call.op \in {"extract_text", "extract_text_from_file"} /\ ~call.out.ok)
    => call.out.exc = "FileProcessingError"

-----------------------------------------------------------------------------
\* Removal of job records.

\* C19: cleanup_old_jobs(max_age_hours) removes exactly the COMPLETED and FAILED jobs
\* whose completed_at is more than max_age_hours old: no QUEUED or PROCESSING job,
\* no terminal job aged max_age_hours or less, and every job that stays keeps all
\* its fields.
C19_CleanupExact ==
    [][\A max_age_hours \in 0..MaxClock :
          Cleanup(max_age_hours) =>
            /\ DOMAIN jobs' =
                  DOMAIN jobs \
                    {j \in DOMAIN jobs :
                        /\ jobs[j].status \in Terminal
                        /\ clock - Get(jobs[j].completed_at) > max_age_hours}
            /\ \A j \in DOMAIN jobs' : jobs'[j] = jobs[j]
            /\ \A j \in DOMAIN jobs :
                  jobs[j].status \in {QUEUED, PROCESSING} => j \in DOMAIN jobs']_vars

\* The only job submitted has failed and is gone from the registry although no
\* DELETE request was made since its submission: cleanup removed it.
C19_Witness ==
    /\ issued = 1
    /\ response = Response("evaluate", 200, 1)
    /\ tasks[1].pc = Done
    /\ 1 \notin DOMAIN jobs
    /\ clock > 0

\* C20: DELETE /result/{job_id} of a job in the registry removes that record and
\* no other, leaves the other records as they are, and get_evaluation_result(job_id)
\* is None afterwards; for an id not in the registry it answers 404 and changes
\* nothing; and a record leaves the registry only in a DELETE or a cleanup step.
C20_DeleteExact ==
    [][/\ \A job_id \in JobIds :
            DeleteResult(job_id) =>
                IF job_id \in DOMAIN jobs
                THEN /\ DOMAIN jobs' = DOMAIN jobs \ {job_id}
                     /\ \A k \in DOMAIN jobs' : jobs'[k] = jobs[k]
                     /\ get_evaluation_result(job_id)' = None
                     /\ response'.code = 200
                ELSE /\ jobs' = jobs
                     /\ tasks' = tasks
                     /\ response'.code = 404
       /\ (\E j \in DOMAIN jobs : j \notin DOMAIN jobs') =>
            \/ \E job_id \in JobIds : DeleteResult(job_id)
            \/ \E max_age_hours \in 0..MaxClock : Cleanup(max_age_hours)]_vars

\* A DELETE has just removed the first job; the second job is still in the registry.
C20_Witness ==
    /\ response = Response("delete", 200, 0)
    /\ issued = 2
    /\ 1 \notin DOMAIN jobs
    /\ 2 \in DOMAIN jobs

-----------------------------------------------------------------------------
\* Statistics, validation and isolation of jobs.

\* The count GET /evaluate/stats reports for a status; a status with no job has no
\* entry in status_breakdown.
CountOf(stats, status) ==
    IF status \in DOMAIN stats.status_breakdown THEN stats.status_breakdown[status] ELSE 0

\* C21: in every state the statistics report total_jobs equal to the number of
\* records in the registry and, for each status, the number of records in that
\* status; the four counts add up to total_jobs.
C21_StatisticsExact ==
    LET stats == get_evaluation_stats.body IN
    /\ get_evaluation_stats.code = 200
    /\ stats.total_jobs = Cardinality(DOMAIN jobs)
    /\ \A status \in JobStatus :
            CountOf(stats, status) = Cardinality({j \in DOMAIN jobs : jobs[j].status = status})
    /\ DOMAIN stats.status_breakdown \subseteq JobStatus
    /\ CountOf(stats, QUEUED) + CountOf(stats, PROCESSING)
         + CountOf(stats, COMPLETED) + CountOf(stats, FAILED) = stats.total_jobs

\* Two jobs were submitted and one record was removed: the statistics count the one
\* failed job that is left.
C21_Witness ==
    /\ issued = 2
    /\ get_job_statistics.total_jobs = 1
    /\ CountOf(get_job_statistics, FAILED) = 1
    /\ CountOf(get_job_statistics, QUEUED) = 0

\* C22: POST /evaluate with neither file id, or with a blank job description, is
\* answered with a client error (400), creates no record and no task and uses up
\* no job id.
C22_RejectionChangesNothing ==
    [][\A request \in Requests :
          (Evaluate(request) /\ ~RequestValid(request)) =>
            /\ response'.op = "evaluate"
            /\ response'.code = 400
            /\ jobs' = jobs
            /\ tasks' = tasks
            /\ issued' = issued]_vars

\* A request was just rejected while an earlier job waits in the registry, untouched.
C22_Witness ==
    /\ response = Response("evaluate", 400, 0)
    /\ issued = 1
    /\ DOMAIN jobs = {1}
    /\ jobs[1].status = QUEUED
    /\ tasks[1].pc = Scheduled

\* C23: a step of the task of job j leaves every other record as it is, a submit
\* leaves every existing record as it is, and whenever a field of a record that
\* stays in the registry changes, the step is one of the task of that very job.
C23_OnlyOwnTaskWrites ==
    [][/\ \A j \in JobIds :
            TaskStep(j) =>
                /\ DOMAIN jobs' = DOMAIN jobs
                /\ \A k \in DOMAIN jobs \ {j} : jobs'[k] = jobs[k]
       /\ \A request \in Requests :
            Evaluate(request) => \A k \in DOMAIN jobs : jobs'[k] = jobs[k]
       /\ \A k \in DOMAIN jobs \cap DOMAIN jobs' :
            jobs'[k] # jobs[k] => TaskStep(k)]_vars

\* Two jobs were processed one after the other and each record holds the outcome
\* of its own task: a missing file for one, the failed retrieval for the other.
C23_Witness ==
    /\ DOMAIN jobs = {1, 2}
    /\ jobs[1].status = FAILED /\ jobs[2].status = FAILED
    /\ tasks[1].request.cv_file_id = Some("no-such-file")
    /\ tasks[2].request.cv_file_id = Some("cv-pdf")
    /\ jobs[1].error_message # jobs[2].error_message
    /\ jobs[1].completed_at # jobs[2].completed_at

\* The place of a call in the sequence of _process_evaluation: CV extraction 1,
\* project extraction 2, the three retrieval calls 3 to 5, CV evaluation 6, project
\* evaluation 7, summarization 8.
StepRank(frame, i) ==
    LET c == frame.calls[i] IN
    CASE c.op = "_extract_file_text" ->
            IF i = 1 /\ frame.request.cv_file_id = Some(c.arg) THEN 1 ELSE 2
      [] c.op = "get_job_description_context" -> 3
      [] c.op = "get_scoring_rubric_context" -> IF c.arg = "cv" THEN 4 ELSE 5
      [] c.op = "evaluate_cv" -> 6
      [] c.op = "evaluate_project" -> 7
      [] c.op = "generate_overall_summary" -> 8

\* C24: within one job the calls are made in the order CV extraction, project
\* extraction, context retrieval, CV evaluation, project evaluation, summarization,
\* none before the record is PROCESSING and each only after the one before it
\* returned; a COMPLETED record comes after the summarization. When an extraction
\* fails, it is the last call of the job: no retrieval call and no evaluation call
\* follows it.
C24_StepsInOrder ==
    \A j \in DOMAIN tasks :
        LET frame == tasks[j]
            n == Len(frame.calls)
        IN  /\ n > 0 => /\ frame.pc # Scheduled
                        /\ j \in DOMAIN jobs => jobs[j].status # QUEUED
            /\ \A i \in 1..n : i < n => StepRank(frame, i) < StepRank(frame, i + 1)
            /\ \A i \in 1..n :
                    (/\ frame.calls[i].op = "_extract_file_text"
                     /\ ~_extract_file_text(frame.calls[i].arg).ok) => i = n
            /\ (j \in DOMAIN jobs /\ jobs[j].status = COMPLETED) =>
                    /\ n > 0
                    /\ frame.calls[n].op = "generate_overall_summary"
                    /\ frame.pc = Done

\* One task extracted the CV and then the project report and went on to the
\* retrieval step; the task of another job stopped at its failed CV extraction.
C24_Witness ==
    \E j \in DOMAIN tasks, k \in DOMAIN tasks :
        /\ Len(tasks[j].calls) >= 3
        /\ StepRank(tasks[j], 1) = 1 /\ StepRank(tasks[j], 2) = 2 /\ StepRank(tasks[j], 3) = 3
        /\ tasks[k].pc = Done
        /\ Len(tasks[k].calls) = 1
        /\ ~_extract_file_text(tasks[k].calls[1].arg).ok

\* The calls of one operation in the log of a task.
CallsOf(frame, op) == {i \in DOMAIN frame.calls : frame.calls[i].op = op}

\* The task is over and every extraction it was asked for returned.
PassedExtraction(frame) ==
    /\ frame.pc = Done
    /\ \A i \in CallsOf(frame, "_extract_file_text") :
            _extract_file_text(frame.calls[i].arg).ok

\* C25: a finished job that passed extraction called evaluate_cv exactly when it
\* extracted a non-empty CV text, and evaluate_project exactly when it extracted a
\* non-empty project text and the request carries a study-case brief; each leg is
\* decided without regard to the other.
C25_LegsFollowExtractedText ==
    \A j \in DOMAIN tasks :
        PassedExtraction(tasks[j]) =>
            /\ CallsOf(tasks[j], "evaluate_cv") # {} <=> tasks[j].cv_text # ""
            /\ CallsOf(tasks[j], "evaluate_project") # {} <=>
                    /\ tasks[j].project_text # ""
                    /\ IsSet(tasks[j].request.study_case_brief)
                    /\ tasks[j].request.study_case_brief # Some("")

\* C26: a finished job that passed extraction called the summarization exactly once,
\* as the last call of the task, and the record is COMPLETED with a result whose
\* overall_summary is set.
C26_SummaryAlwaysInvoked ==
    \A j \in DOMAIN tasks :
        PassedExtraction(tasks[j]) =>
            /\ Cardinality(CallsOf(tasks[j], "generate_overall_summary")) = 1
            /\ CallsOf(tasks[j], "generate_overall_summary") = {Len(tasks[j].calls)}
            /\ j \in DOMAIN jobs =>
                    /\ jobs[j].status = COMPLETED
                    /\ IsSet(jobs[j].result)

\* C27: for a finished job that passed extraction the three retrieval calls were
\* made and each returned text: the enrichment of the job description and the CV
\* and project rubric lookups do not raise.
C27_RetrievalNeverFails ==
    \A j \in DOMAIN tasks :
        PassedExtraction(tasks[j]) =>
            /\ Cardinality(CallsOf(tasks[j], "get_job_description_context")) = 1
            /\ Cardinality(CallsOf(tasks[j], "get_scoring_rubric_context")) = 2
            /\ get_job_description_context(tasks[j].request.job_description).ok
            /\ get_scoring_rubric_context("cv").ok
            /\ get_scoring_rubric_context("project").ok

\* The structured data a raw response holds: the text from its first "{" to its
\* last "}", when that text is one JSON object; <<>> when there is no "{", no "}",
\* the last "}" comes before the first "{", or the text is not valid JSON.
JsonObjects == {<<"{", "}">>, <<"{", "m", "}">>, <<"{", "o", "}">>}

Embedded(raw) ==
    {SubSeq(raw, i, k) : i \in DOMAIN raw, k \in DOMAIN raw} \cap
    {text \in JsonObjects :
        \E i \in DOMAIN raw, k \in DOMAIN raw :
            /\ i < k /\ text = SubSeq(raw, i, k)
            /\ raw[i] = "{" /\ \A before \in 1..(i - 1) : raw[before] # "{"
            /\ raw[k] = "}" /\ \A after \in (k + 1)..Len(raw) : raw[after] # "}"}

MockOf(op) ==
    IF op = "evaluate_cv" THEN _mock_cv_evaluation ELSE _mock_project_evaluation

\* C28: a raw response whose text from the first "{" to the last "}" is not a JSON
\* object (no "{", no "}", the last "}" before the first "{", or invalid JSON) makes
\* the parser return the mock of the evaluation type it was asked for, and makes
\* evaluate_cv return the CV mock and evaluate_project the project mock; no error
\* leaves either.
C28_UnparsableYieldsMock ==
    /\ (llm.op = "_parse_json_response" /\ Embedded(llm.args[1]) = {}) =>
            llm.out = Return(IF llm.args[2] = "cv" THEN _mock_cv_evaluation
                                                  ELSE _mock_project_evaluation)
    /\ (/\ llm.op \in {"evaluate_cv", "evaluate_project"}
        /\ llm.backend.ok
        /\ Embedded(llm.backend.val) = {}) =>
            /\ llm.out.ok
            /\ llm.out.val = MockOf(llm.op)

\* CVEvaluation (schemas.py 36-42) and ProjectEvaluation (44-51) accept a dict: every
\* score is there and in range (hundredths), and the feedback is there.
ValidCVEvaluation(d) ==
    /\ \A k \in {"technical_skills_match", "experience_level", "relevant_achievements",
                  "cultural_fit", "cv_match_rate"} :
            k \in DOMAIN d /\ d[k][1] >= 0 /\ d[k][1] <= 100
    /\ "cv_feedback" \in DOMAIN d

ValidProjectEvaluation(d) ==
    /\ \A k \in {"correctness", "code_quality", "resilience", "documentation",
                  "creativity_bonus", "project_score"} :
            k \in DOMAIN d /\ d[k][1] >= 100 /\ d[k][1] <= 500
    /\ "project_feedback" \in DOMAIN d

ValidFor(op, d) ==
    IF op = "evaluate_cv" THEN ValidCVEvaluation(d) ELSE ValidProjectEvaluation(d)

\* C29: what evaluate_cv returns has its five scores in [0,1] and what
\* evaluate_project returns has its six scores in [1,5]; when the provider answers
\* a JSON object with a score out of range or a field missing, the operation
\* returns the mock of its type.
C29_ScoresInRange ==
    llm.op \in {"evaluate_cv", "evaluate_project"} =>
        /\ llm.out.ok => ValidFor(llm.op, llm.out.val)
        /\ (/\ llm.backend.ok
            /\ \E text \in Embedded(llm.backend.val) :
                    ~ValidFor(llm.op, json_loads(text).val)) =>
                /\ llm.out.ok
                /\ llm.out.val = MockOf(llm.op)

FirstSuccess(client) ==
    LET good == {k \in DOMAIN client : client[k].ok} IN
    IF good = {} THEN 0 ELSE CHOOSE k \in good : \A other \in good : k <= other

\* C31: a provider call makes at most 3 requests, retries a failure of every kind,
\* stops at the first request that succeeds and fails with the third failure; and
\* an evaluation whose provider call has failed returns the mock of its type,
\* having made that one provider call and no other.
C31_OneRetriedProviderCall ==
    /\ llm.op \in {"_call_openai", "_call_gemini"} =>
            /\ llm.run.calls <= 3
            /\ llm.run.calls = IF FirstSuccess(llm.client) = 0 THEN 3
                                                               ELSE FirstSuccess(llm.client)
            /\ llm.run.out.ok <=> FirstSuccess(llm.client) # 0
    /\ (/\ llm.op \in {"evaluate_cv", "evaluate_project"}
        /\ llm.args[3] \in {Some(OPENAI), Some(GEMINI)}
        /\ ~llm.backend.ok) =>
            /\ llm.out.ok
            /\ llm.out.val = MockOf(llm.op)
            /\ Len(llm.consulted) = 1

\* C32: a query of the index that fails with a connection failure or a timeout is
\* made a second time before search_context degrades to the fallback set; a query
\* that fails in another way, or answers, is made once.
C32_ConnectionFailureRetried ==
    call.op = "search_context" =>
        LET first == call.query_outcomes[1]
            transient == ~first.ok /\ first.exc \in {"ConnectionError", "TimeoutError"}
        IN  call.run.calls = IF transient THEN 2 ELSE 1

\* C33: an extraction that fails with an I/O failure (the file cannot be opened) is
\* attempted a second time after a delay of 0.5 s before it fails; an extraction
\* that fails in another way (unsupported type, empty document), or succeeds, is
\* attempted once, without any delay.
C33_IoFailureRetried ==
    call.op = "extract_text_from_file" =>
        LET file_path == call.args[1]
            io_failure == /\ file_path.ext \in {".pdf", ".docx", ".txt"}
                          /\ FileContent(file_path) = "missing"
        IN  IF io_failure
            THEN call.run.calls = 2 /\ call.run.delays = <<500>> /\ ~call.run.out.ok
            ELSE call.run.calls = 1 /\ call.run.delays = <<>>

\* C34: for the same config and the same outcomes of the attempts, retry_sync and
\* retry_async invoke the function the same number of times, sleep the same number
\* of times, end with the same value or the same failure, and with jitter off
\* request the same delays.
C34_ModesAgree ==
    Retried =>
        \A rand \in {call.rand, [k \in 1..MaxAttempts |-> 0]} :
            LET sync == retry_sync(call.config, call.func, rand)
                async == retry_async(call.config, call.func, rand)
                other == IF call.op = "retry_sync" THEN async ELSE sync
            IN  /\ other.calls = call.run.calls
                /\ other.out = call.run.out
                /\ Len(other.delays) = Len(call.run.delays)
                /\ (~call.config.jitter \/ rand = call.rand) => other.delays = call.run.delays

\* The blocking wrapper ran three attempts with jitter off, slept twice and
\* returned the value of the third.
C34_Witness ==
    /\ call.op = "retry_sync"
    /\ ~call.config.jitter
    /\ call.run.calls = 3
    /\ Len(call.run.delays) = 2
    /\ call.run.out.ok

\* A scan of the registry has collected ids and has not finished with them.
ScanInProgress == call.op = "cleanup"

C36_TaskNeverCrashes ==
    \A j \in DOMAIN tasks : tasks[j].pc # Crashed

\* C37: an id that was issued and is absent from the registry is absent after every
\* step: neither a step of its task nor any other step stores a record under it.
C37_RemovedStaysAbsent ==
    [][\A j \in 1..issued : j \notin DOMAIN jobs => j \notin DOMAIN jobs']_vars

\* The record of a job was removed while the job was queued; its task has run since
\* and ended, and the id is still absent.
C37_Witness ==
    \E j \in DOMAIN tasks :
        /\ j \notin DOMAIN jobs
        /\ tasks[j].pc = Crashed
        /\ tasks[j].calls = <<>>

\* C38: when the k-th attempt (1 <= k <= max_attempts) is the first that succeeds,
\* the attempts before it having failed with retryable kinds, the wrapper returns
\* the value of the k-th attempt after exactly k invocations and exactly k - 1
\* sleeps.
C38_FirstSuccessReturns ==
    Retried =>
        LET k == FirstSuccess(call.func) IN
        (/\ k \in 1..call.config.max_attempts
         /\ \A i \in 1..(k - 1) : FailsRetryable(i)) =>
            /\ call.run.out = call.func[k]
            /\ call.run.out.ok
            /\ call.run.calls = k
            /\ Len(call.run.delays) = k - 1

\* The non-blocking wrapper failed once with a retryable kind, slept once and
\* returned the value of the second of three attempts.
C38_Witness ==
    /\ call.op = "retry_async"
    /\ call.config.max_attempts = 3
    /\ FailsRetryable(1)
    /\ FirstSuccess(call.func) = 2
    /\ call.run.calls = 2
    /\ Len(call.run.delays) = 1
    /\ call.run.out = call.func[2]

-----------------------------------------------------------------------------
\* Direct calls of the upload routes (app/routers/upload.py) on an empty file store.

MAX_FILE_SIZE == 10 * 1024 * 1024

ALLOWED_EXTENSIONS == {".pdf", ".docx", ".txt"}

\* An UploadFile: the name the client gave, the bytes of the body, and the position
\* of the next read in them.
UploadFile(filename, content) == [filename |-> filename, content |-> content, position |-> 0]

\* await file.read(): the bytes from the position to the end; the position moves to
\* the end.
read(file) ==
    [data |-> Slice(file.content, file.position, Len(file.content)),
     file |-> [file EXCEPT !.position = Len(file.content)]]

\* os.path.splitext(filename)[1].lower() on the names of the model.
file_ext_of(filename) ==
    CASE filename = "cv.pdf" -> ".pdf"
      [] filename = "report.DOCX" -> ".docx"
      [] filename = "notes.txt" -> ".txt"
      [] filename = "run.exe" -> ".exe"
      [] OTHER -> ""

\* FileService._validate_file, lines 19-37; file.size is the length of the body.
_validate_file(file) ==
    CASE file.filename = "" -> Raise("HTTPException", "400: No filename provided")
      [] file_ext_of(file.filename) \notin ALLOWED_EXTENSIONS ->
            Raise("HTTPException", "400: File type not allowed")
      [] Len(file.content) > MAX_FILE_SIZE -> Raise("HTTPException", "400: File too large")
      [] OTHER -> Return(None)

\* FileService.save_file, lines 39-58, with file_id the uuid4 of line 44: the outcome,
\* the file object as the call leaves it, and the files written.
save_file(file, file_id) ==
    LET valid == _validate_file(file)
        file_path == get_file_path(file_id, file_ext_of(file.filename))
        content == read(file)
    IN  IF ~valid.ok
        THEN [out |-> valid, file |-> file, written |-> <<>>]
        ELSE IF Len(content.data) > MAX_FILE_SIZE
             THEN [out |-> Raise("HTTPException", "400: File too large"),
                   file |-> content.file, written |-> (file_path :> <<>>)]
             ELSE [out |-> Return(<<file_id, file_path>>),
                   file |-> content.file, written |-> (file_path :> content.data)]

UploadResponse(message, file_id, filename, file_size) ==
    [message |-> message, file_id |-> file_id, filename |-> filename, file_size |-> file_size]

\* upload_file, lines 7-28: line 22 reads the file object again after save_file.
upload_file(file, file_id) ==
    LET saved == save_file(file, file_id) IN
    [out |-> IF saved.out.ok
             THEN Return(UploadResponse("File uploaded successfully", saved.out.val[1],
                                        file.filename, Len(read(saved.file).data)))
             ELSE saved.out,
     written |-> saved.written]

\* Lines 30-38 and 40-48.
upload_cv(file, file_id) == upload_file(file, file_id)

upload_project_report(file, file_id) == upload_file(file, file_id)

MaxContentLen == 3

Bytes == {0, 65, 255}

Contents == UNION {[1..n -> Bytes] : n \in 0..MaxContentLen}

Filenames == {"cv.pdf", "report.DOCX", "notes.txt", "run.exe", ""}

PostUpload(filename, content) ==
    /\ call' = [op |-> "upload_file", args |-> <<filename, content>>,
                run |-> upload_file(UploadFile(filename, content), "upload-1")]
    /\ UNCHANGED <<jobs, tasks, issued, clock, response, llm>>

PostUploadCv(filename, content) ==
    /\ call' = [op |-> "upload_cv", args |-> <<filename, content>>,
                run |-> upload_cv(UploadFile(filename, content), "upload-1")]
    /\ UNCHANGED <<jobs, tasks, issued, clock, response, llm>>

PostUploadProject(filename, content) ==
    /\ call' = [op |-> "upload_project_report", args |-> <<filename, content>>,
                run |-> upload_project_report(UploadFile(filename, content), "upload-1")]
    /\ UNCHANGED <<jobs, tasks, issued, clock, response, llm>>

NextUpload ==
    \/ /\ call.op = "none"
       /\ \E filename \in Filenames, content \in Contents : PostUpload(filename, content)
    \/ /\ call.op = "none"
       /\ \E filename \in Filenames, content \in Contents : PostUploadCv(filename, content)
    \/ /\ call.op = "none"
       /\ \E filename \in Filenames, content \in Contents :
            PostUploadProject(filename, content)

SpecUpload == Init /\ [][NextUpload]_vars

\* C39: a successful upload stores the uploaded bytes under the returned file_id
\* and reports their number as file_size, for empty and for non-empty content.
C39_FileSizeIsBytesWritten ==
    (call.op \in {"upload_file", "upload_cv", "upload_project_report"} /\ call.run.out.ok) =>
        LET file_path == get_file_path(call.run.out.val.file_id, file_ext_of(call.args[1])) IN
        /\ DOMAIN call.run.written = {file_path}
        /\ call.run.written[file_path] = call.args[2]
        /\ call.run.out.val.file_size = Len(call.run.written[file_path])

====
